---- MODULE Spec2Model ----
(***************************************************************************)
(* golang-xlsx2csv (src/main.go): the batch dispatcher batchXlsx2csv with  *)
(* its worker goroutines, and the single-file conversion xlsx2csv.         *)
(*                                                                         *)
(* Two specifications share the variables of the module:                   *)
(*   Spec      the batch: discovery, the workers, the two channels         *)
(*   SpecConv  one call of xlsx2csv, statement by statement                *)
(* Paths are sequences of one-character strings.                           *)
(***************************************************************************)
EXTENDS Integers, Sequences, FiniteSets, TLC

(* ---------------------------- bounds ---------------------------------- *)

\* entries of the directory listing that a batch reads
MaxEntries == 5
\* largest value of the batchThreads flag
MaxThreads == 3

\* rows a source document holds at most
MaxRows == 7
\* the conversion flushes the csv writer every FlushEvery rows; the source's
\* period is 10000 (main.go:232), the model takes a small one so that row
\* counts below, at and above a multiple of the period are all reached
FlushEvery == 3
\* sheets of the source document; the sheet flag ranges over -1..DocSheets
DocSheets == 1

\* runtime.NumCPU() of the machine
NumCPU == 1

\* most directory entries of a batch checked for termination
MaxFairEntries == 4

\* longest mask and longest source path given to getRealCSVPath on its own
MaxMaskLen == 3
MaxSourceLen == 3

(* --------------------------- strings ---------------------------------- *)

\* os.PathSeparator of the build (a unix build)
PathSeparator == "/"

UpperChars == <<"X", "L", "S">>
LowerChars == <<"x", "l", "s">>

\* strings.ToLower, on the alphabet of the model
ToLowerChar(c) ==
    IF \E i \in 1..Len(UpperChars) : UpperChars[i] = c
    THEN LowerChars[CHOOSE i \in 1..Len(UpperChars) : UpperChars[i] = c]
    ELSE c

ToLower(s) == [i \in 1..Len(s) |-> ToLowerChar(s[i])]

\* s[from..] (Go: s[from-1:])
Suffix(s, from) == SubSeq(s, from, Len(s))

\* does pat occur in s at position i
OccursAt(s, pat, i) ==
    /\ i >= 1
    /\ i + Len(pat) - 1 <= Len(s)
    /\ SubSeq(s, i, i + Len(pat) - 1) = pat

\* strings.Index + 1, or 0 when pat does not occur
IndexOf(s, pat) ==
    IF \E i \in 1..Len(s) + 1 : OccursAt(s, pat, i)
    THEN CHOOSE i \in 1..Len(s) + 1 :
            /\ OccursAt(s, pat, i)
            /\ \A j \in 1..i - 1 : ~OccursAt(s, pat, j)
    ELSE 0

\* strings.Replace(s, old, new, 1): the first occurrence only
ReplaceFirst(s, old, new) ==
    LET i == IndexOf(s, old) IN
    IF i = 0 THEN s
    ELSE SubSeq(s, 1, i - 1) \o new \o Suffix(s, i + Len(old))

\* filepath.ToSlash: every separator becomes a slash
ToSlash(s) == [i \in 1..Len(s) |-> IF s[i] = PathSeparator THEN "/" ELSE s[i]]

\* filepath.FromSlash: every slash becomes the separator
FromSlash(s) == [i \in 1..Len(s) |-> IF s[i] = "/" THEN PathSeparator ELSE s[i]]

\* index of the last separator of s, 0 when there is none
LastSep(s) ==
    IF \E i \in 1..Len(s) : s[i] = PathSeparator
    THEN CHOOSE i \in 1..Len(s) :
            /\ s[i] = PathSeparator
            /\ \A j \in i + 1..Len(s) : s[j] # PathSeparator
    ELSE 0

\* filepath.Ext: from the last dot of the last element, "" when it has none
Ext(path) ==
    LET from == LastSep(path) + 1
        dots == {i \in from..Len(path) : path[i] = "."}
    IN  IF dots = {} THEN <<>>
        ELSE Suffix(path, CHOOSE i \in dots : \A j \in dots : j <= i)

\* path without its trailing separators
RECURSIVE StripTrailingSeps(_)
StripTrailingSeps(s) ==
    IF Len(s) > 0 /\ s[Len(s)] = PathSeparator
    THEN StripTrailingSeps(SubSeq(s, 1, Len(s) - 1))
    ELSE s

\* filepath.Base
Base(path) ==
    IF path = <<>> THEN <<".">>
    ELSE LET p == StripTrailingSeps(path)
             q == Suffix(p, LastSep(p) + 1)
         IN  IF q = <<>> THEN <<PathSeparator>> ELSE q

\* the elements of a path between its separators, empty ones included
RECURSIVE SplitPath(_)
SplitPath(s) ==
    LET i == IndexOf(s, <<PathSeparator>>) IN
    IF i = 0 THEN <<s>>
    ELSE <<SubSeq(s, 1, i - 1)>> \o SplitPath(Suffix(s, i + 1))

\* filepath.Clean's pass over the elements: "" and "." are dropped, ".."
\* removes the element before it (at the root it is dropped, and it is kept
\* where a relative path has nothing left to remove)
RECURSIVE CleanElems(_, _, _)
CleanElems(elems, out, rooted) ==
    IF elems = <<>> THEN out
    ELSE LET e == Head(elems)
             rest == Tail(elems)
         IN  IF e = <<>> \/ e = <<".">> THEN CleanElems(rest, out, rooted)
             ELSE IF e = <<".", ".">>
                  THEN IF out # <<>> /\ out[Len(out)] # <<".", ".">>
                       THEN CleanElems(rest, SubSeq(out, 1, Len(out) - 1), rooted)
                       ELSE IF rooted THEN CleanElems(rest, out, rooted)
                            ELSE CleanElems(rest, Append(out, e), rooted)
                  ELSE CleanElems(rest, Append(out, e), rooted)

RECURSIVE JoinPath(_)
JoinPath(elems) ==
    IF elems = <<>> THEN <<>>
    ELSE IF Len(elems) = 1 THEN elems[1]
         ELSE elems[1] \o <<PathSeparator>> \o JoinPath(Tail(elems))

\* filepath.Clean
Clean(path) ==
    IF path = <<>> THEN <<".">>
    ELSE LET rooted == path[1] = PathSeparator
             body == JoinPath(CleanElems(SplitPath(path), <<>>, rooted))
         IN  IF rooted THEN <<PathSeparator>> \o body
             ELSE IF body = <<>> THEN <<".">> ELSE body

\* filepath.Dir: all but the last element, cleaned
Dir(path) == Clean(SubSeq(path, 1, LastSep(path)))

\* getRealCSVPath with the extension left on the basename
getRealCSVPathKeepExt(destinationMask, source) ==
    LET src == ToSlash(source)
        mask == ToSlash(destinationMask)
        dirname == Dir(src) \o <<"/">>
        basename == Base(src)
        r1 == ReplaceFirst(mask, <<"*", "/">>, dirname)
        r2 == ReplaceFirst(r1, <<"*">>, basename)
    IN  FromSlash(r2)

\* getRealCSVPath (main.go:80-91)
getRealCSVPath(destinationMask, source) ==
    LET src == ToSlash(source)
        mask == ToSlash(destinationMask)
        dirname == Dir(src) \o <<"/">>
        basename0 == Base(src)
        ext == Ext(basename0)
        basename == SubSeq(basename0, 1, Len(basename0) - Len(ext))
        r1 == ReplaceFirst(mask, <<"*", "/">>, dirname)
        r2 == ReplaceFirst(r1, <<"*">>, basename)
    IN  FromSlash(r2)

(* ------------------------ the batch: state ---------------------------- *)

VARIABLES
    dirContents,   \* file.Readdir(0): the entries of the batch directory
    files,         \* the job list, main.go:115-128
    BatchThreads,  \* *runParameters.BatchThreads, at least 1 (main.go:66-68)
    tasks,         \* chan string: the buffered names
    tasksCap,      \* capacity of tasks, len(files)
    tasksClosed,   \* close(tasks) has run
    reports,       \* chan int: the buffered reports
    workerId,      \* loop variable of main.go:131
    sent,          \* iterations done of the loop at main.go:155
    received,      \* iterations done of the loop at main.go:158
    dpc,           \* where the dispatching goroutine is
    wpc,           \* where each worker goroutine is
    fileSrcName,   \* each worker's local, main.go:137
    fileDstName,   \* each worker's local, main.go:141
    convErr,       \* each worker's local err, main.go:146
    started,       \* how often xlsx2csv was called for each source (START lines)
    outcomes,      \* the jobs reported on the reports channel, in order
    batchResult,   \* what batchXlsx2csv returned
    runParameters, \* the XLSXPath and CSVPath of the struct batchXlsx2csv was given
    runThreadParameters  \* each worker's local copy of it, main.go:142-144

batchVars == <<dirContents, files, BatchThreads, tasks, tasksCap, tasksClosed,
               reports, workerId, sent, received, dpc, wpc, fileSrcName,
               fileDstName, convErr, started, outcomes, batchResult,
               runParameters, runThreadParameters>>

(* --------------------- the conversion: state -------------------------- *)

VARIABLES
    CSVPath,        \* *runParameters.CSVPath, empty for standard output
    SheetIndex,     \* *runParameters.SheetIndex
    AddBOMUTF8,     \* *runParameters.AddBOMUTF8
    Delimiter,      \* *runParameters.Delimiter, one character
    cpc,            \* where xlsx2csv is
    xlsx,           \* the source document's handle: "none", "open", "closed"
    outputFile,     \* which file outputFile is: "stdout", "file"
    stdoutHandle,   \* os.Stdout: "open", "closed"
    fileHandle,     \* the handle os.Create returned: "none", "open", "closed"
    dirMade,        \* MkdirAll has made the destination's directory
    dstFile,        \* the file at CSVPath: [exists, content]
    stdoutContent,  \* what standard output has received
    csvBuf,         \* csv.Writer's buffer: records written and not flushed
    csvErr,         \* the buffered writer's sticky write error
    nScanned,       \* rows scanner.Scan has returned
    lastScanError,  \* scanner.GetLastScanError()
    iteration,      \* main.go:218
    defers,         \* the deferred calls, last one first to run
    returnError,    \* what xlsx2csv returns
    accepted,       \* the records csvWriter.Write took without error
    finalFlush      \* the deferred csvWriter.Flush has run

convVars == <<CSVPath, SheetIndex, AddBOMUTF8, Delimiter, cpc, xlsx, outputFile,
              stdoutHandle, fileHandle, dirMade, dstFile, stdoutContent, csvBuf,
              csvErr, nScanned, lastScanError, iteration, defers, returnError,
              accepted, finalFlush>>

(* ------------------- the path resolver: state -------------------------- *)

VARIABLES
    resolveMask,    \* the destinationMask given to getRealCSVPath
    resolveSource,  \* the source given to getRealCSVPath
    resolveResult,  \* what it returned
    rpc             \* "call" before the call, "done" after, "idle" otherwise

pathVars == <<resolveMask, resolveSource, resolveResult, rpc>>

vars == <<batchVars, convVars, pathVars>>

\* the resolver's variables while no call of it alone is modelled
PathIdle ==
    /\ resolveMask = <<>>
    /\ resolveSource = <<>>
    /\ resolveResult = <<>>
    /\ rpc = "idle"

\* the conversion's variables while no conversion is modelled
ConvIdle ==
    /\ CSVPath = <<>>
    /\ SheetIndex = -1
    /\ AddBOMUTF8 = FALSE
    /\ Delimiter = ";"
    /\ cpc = "idle"
    /\ xlsx = "none"
    /\ outputFile = "stdout"
    /\ stdoutHandle = "open"
    /\ fileHandle = "none"
    /\ dirMade = FALSE
    /\ dstFile = [exists |-> FALSE, content |-> <<>>]
    /\ stdoutContent = <<>>
    /\ csvBuf = <<>>
    /\ csvErr = FALSE
    /\ nScanned = 0
    /\ lastScanError = "nil"
    /\ iteration = 0
    /\ defers = <<>>
    /\ returnError = "unset"
    /\ accepted = <<>>
    /\ finalFlush = FALSE

\* *runParameters.BatchPath
BatchPath == <<"d">>

\* *runParameters.BatchPathFilenameMask, the flag's default (main.go:44)
BatchPathFilenameMask == <<"*", "/", "*", ".", "c", "s", "v">>

DirEntry(name, size, isDir) == [name |-> name, size |-> size, isDir |-> isDir]

\* a directory the batch may find: files of both extensions, in either case,
\* two of one size, a file of another extension and a subdirectory
DirPool ==
    << DirEntry(<<"a", ".", "x", "l", "s", "x">>, 2, FALSE),
       DirEntry(<<"s", ".", "x", "l", "s">>, 0, TRUE),
       DirEntry(<<"b", ".", "X", "L", "S">>, 3, FALSE),
       DirEntry(<<"c", ".", "t", "x", "t">>, 9, FALSE),
       DirEntry(<<"a", ".", "x", "l", "s">>, 2, FALSE),
       DirEntry(<<"e", ".", "x", "l", "s", "x">>, 1, FALSE),
       DirEntry(<<"f", ".", "x", "l", "s">>, 5, FALSE) >>

Min(a, b) == IF a < b THEN a ELSE b

DirListings == {SubSeq(DirPool, 1, k) : k \in 0..Min(MaxEntries, Len(DirPool))}

ExtXlsx == <<".", "x", "l", "s", "x">>
ExtXls == <<".", "x", "l", "s">>

\* the loop of main.go:116-125: subdirectories and other extensions are skipped
RECURSIVE Discover(_)
Discover(entries) ==
    IF entries = <<>> THEN <<>>
    ELSE LET fileInner == Head(entries)
             fileSrc == BatchPath \o <<PathSeparator>> \o fileInner.name
             ext == Ext(fileSrc)
         IN  IF fileInner.isDir THEN Discover(Tail(entries))
             ELSE IF ToLower(ext) = ExtXlsx \/ ToLower(ext) = ExtXls
                  THEN <<[name |-> fileSrc, size |-> fileInner.size]>>
                           \o Discover(Tail(entries))
                  ELSE Discover(Tail(entries))

\* sort.Slice with less(i, j) = size[i] > size[j] (main.go:126-128): some
\* permutation in which no element is smaller than a later one; sort.Slice
\* is not stable, so elements of equal size come in any order
SortSlice(fs) ==
    LET n == Len(fs)
        perms == {p \in [1..n -> 1..n] : \A i, j \in 1..n : i # j => p[i] # p[j]}
    IN  {[i \in 1..n |-> fs[p[i]]] : p \in
            {q \in perms : \A i, j \in 1..n : i < j => ~(fs[q[j]].size > fs[q[i]].size)}}

Workers == 0..(BatchThreads - 1)

FileNames == {files[i].name : i \in 1..Len(files)}

NoPath == <<>>

\* main.go:41-42 and 60-65: in batch mode -xlsx is "", and so is -csv unless
\* given; the batch reads neither
SharedPaths == [XLSXPath |-> NoPath, CSVPath |-> NoPath]

\* a queue of one slot, whatever the number of files
TasksCapacityOne(fs) == 1

\* main.go:129: tasks := make(chan string, len(files))
TasksCapacity(fs) == Len(fs)

\* the -threads values tried: below 1, and 1 and more
RequestedThreads == -1..MaxThreads

\* the requested count handed on as it is
ResolveThreadsRaw(requested) == requested

\* main.go:66-68: a count below 1 becomes runtime.NumCPU() + 1
ResolveThreads(requested) ==
    IF requested < 1 THEN NumCPU + 1 ELSE requested

InitBatch ==
    /\ dirContents \in DirListings
    /\ files \in SortSlice(Discover(dirContents))
    /\ BatchThreads \in {ResolveThreads(r) : r \in RequestedThreads}
    /\ tasks = <<>>
    /\ tasksCap = TasksCapacity(files)
    /\ tasksClosed = FALSE
    /\ reports = <<>>
    /\ workerId = 0
    /\ sent = 0
    /\ received = 0
    /\ dpc = "running"
    /\ wpc = [w \in 0..(MaxThreads - 1) |-> "unborn"]
    /\ fileSrcName = [w \in 0..(MaxThreads - 1) |-> NoPath]
    /\ fileDstName = [w \in 0..(MaxThreads - 1) |-> NoPath]
    /\ convErr = [w \in 0..(MaxThreads - 1) |-> "nil"]
    /\ started = [f \in {files[i].name : i \in 1..Len(files)} |-> 0]
    /\ outcomes = <<>>
    /\ batchResult = "running"
    /\ runParameters = SharedPaths
    /\ runThreadParameters = [w \in 0..(MaxThreads - 1) |-> SharedPaths]
    /\ ConvIdle
    /\ PathIdle

(* ----------------------- the batch: dispatcher ------------------------ *)

\* main.go:131-154, one iteration: go func(workerId) starts a worker
Spawn ==
    /\ dpc = "running"
    /\ workerId < BatchThreads
    /\ wpc' = [wpc EXCEPT ![workerId] = "recv"]
    /\ workerId' = workerId + 1
    /\ UNCHANGED <<dirContents, files, BatchThreads, tasks, tasksCap, tasksClosed,
                   reports, sent, received, dpc, fileSrcName, fileDstName,
                   convErr, started, outcomes, batchResult,
                   runParameters, runThreadParameters,
                   convVars, pathVars>>

\* Enqueue with the loop variable unused: the first name is sent every time
EnqueueFirst ==
    /\ dpc = "running"
    /\ workerId = BatchThreads
    /\ sent < Len(files)
    /\ Len(tasks) < tasksCap
    /\ tasks' = Append(tasks, files[1].name)
    /\ sent' = sent + 1
    /\ UNCHANGED <<dirContents, files, BatchThreads, tasksCap, tasksClosed,
                   reports, workerId, received, dpc, wpc, fileSrcName,
                   fileDstName, convErr, started, outcomes, batchResult,
                   runParameters, runThreadParameters,
                   convVars, pathVars>>

\* main.go:155-157, one iteration: tasks <- file.name, which waits for room
Enqueue ==
    /\ dpc = "running"
    /\ workerId = BatchThreads
    /\ sent < Len(files)
    /\ Len(tasks) < tasksCap
    /\ tasks' = Append(tasks, files[sent + 1].name)
    /\ sent' = sent + 1
    /\ UNCHANGED <<dirContents, files, BatchThreads, tasksCap, tasksClosed,
                   reports, workerId, received, dpc, wpc, fileSrcName,
                   fileDstName, convErr, started, outcomes, batchResult,
                   runParameters, runThreadParameters,
                   convVars, pathVars>>

\* main.go:158-160, one iteration: <-reports, which waits for a report
Collect ==
    /\ dpc = "running"
    /\ workerId = BatchThreads
    /\ sent = Len(files)
    /\ received < Len(files)
    /\ reports # <<>>
    /\ reports' = Tail(reports)
    /\ received' = received + 1
    /\ UNCHANGED <<dirContents, files, BatchThreads, tasks, tasksCap, tasksClosed,
                   workerId, sent, dpc, wpc, fileSrcName, fileDstName, convErr,
                   started, outcomes, batchResult,
                   runParameters, runThreadParameters,
                   convVars, pathVars>>

\* CloseTasks placed before the loop that collects the reports
CloseTasksEarly ==
    /\ dpc = "running"
    /\ workerId = BatchThreads
    /\ sent = Len(files)
    /\ tasksClosed' = TRUE
    /\ dpc' = "sleep"
    /\ UNCHANGED <<dirContents, files, BatchThreads, tasks, tasksCap, reports,
                   workerId, sent, received, wpc, fileSrcName, fileDstName,
                   convErr, started, outcomes, batchResult, runParameters, runThreadParameters,
                   convVars, pathVars>>

\* main.go:161: close(tasks), after both loops
CloseTasks ==
    /\ dpc = "running"
    /\ workerId = BatchThreads
    /\ sent = Len(files)
    /\ received = Len(files)
    /\ tasksClosed' = TRUE
    /\ dpc' = "sleep"
    /\ UNCHANGED <<dirContents, files, BatchThreads, tasks, tasksCap, reports,
                   workerId, sent, received, wpc, fileSrcName, fileDstName,
                   convErr, started, outcomes, batchResult,
                   runParameters, runThreadParameters,
                   convVars, pathVars>>

\* main.go:162-163: time.Sleep(100ms) ends, whatever the workers have done
\* in the meantime, and batchXlsx2csv returns nil
Return ==
    /\ dpc = "sleep"
    /\ dpc' = "returned"
    /\ batchResult' = "nil"
    /\ UNCHANGED <<dirContents, files, BatchThreads, tasks, tasksCap, tasksClosed,
                   reports, workerId, sent, received, wpc, fileSrcName,
                   fileDstName, convErr, started, outcomes,
                   runParameters, runThreadParameters,
                   convVars, pathVars>>

(* ------------------------- the batch: workers ------------------------- *)

\* what xlsx2csv can return to a worker: nil or one of its errors; the call
\* itself is SpecConv, the batch takes its result as it comes
ConvResults == {"nil", "error"}

\* Recv that reads the head of the queue and leaves it there
RecvKeep(w) ==
    /\ wpc[w] = "recv"
    /\ tasks # <<>>
    /\ tasks' = tasks
    /\ fileSrcName' = [fileSrcName EXCEPT ![w] = Head(tasks)]
    /\ fileDstName' = [fileDstName EXCEPT
                         ![w] = getRealCSVPath(BatchPathFilenameMask, Head(tasks))]
    /\ runThreadParameters' =
           [runThreadParameters EXCEPT
               ![w] = [XLSXPath |-> Head(tasks),
                       CSVPath |-> getRealCSVPath(BatchPathFilenameMask, Head(tasks))]]
    /\ started' = [started EXCEPT ![Head(tasks)] = @ + 1]
    /\ wpc' = [wpc EXCEPT ![w] = "conv"]
    /\ UNCHANGED <<dirContents, files, BatchThreads, tasksCap, tasksClosed,
                   reports, workerId, sent, received, dpc, convErr, outcomes,
                   batchResult, runParameters,
                   convVars, pathVars>>

\* Recv by a worker that does not wait for its conversion to return
RecvWhileBusy(w) ==
    /\ wpc[w] \in {"recv", "conv"}
    /\ tasks # <<>>
    /\ tasks' = Tail(tasks)
    /\ fileSrcName' = [fileSrcName EXCEPT ![w] = Head(tasks)]
    /\ fileDstName' = [fileDstName EXCEPT
                         ![w] = getRealCSVPath(BatchPathFilenameMask, Head(tasks))]
    /\ runThreadParameters' =
           [runThreadParameters EXCEPT
               ![w] = [XLSXPath |-> Head(tasks),
                       CSVPath |-> getRealCSVPath(BatchPathFilenameMask, Head(tasks))]]
    /\ started' = [started EXCEPT ![Head(tasks)] = @ + 1]
    /\ wpc' = [wpc EXCEPT ![w] = "conv"]
    /\ UNCHANGED <<dirContents, files, BatchThreads, tasksCap, tasksClosed,
                   reports, workerId, sent, received, dpc, convErr, outcomes,
                   batchResult, runParameters,
                   convVars, pathVars>>

\* Recv with runThreadParameters := runParameters, the pointer instead of a
\* copy of the struct: the two paths are stored in the one struct of all workers
RecvShared(w) ==
    /\ wpc[w] = "recv"
    /\ tasks # <<>>
    /\ tasks' = Tail(tasks)
    /\ fileSrcName' = [fileSrcName EXCEPT ![w] = Head(tasks)]
    /\ fileDstName' = [fileDstName EXCEPT
                         ![w] = getRealCSVPath(BatchPathFilenameMask, Head(tasks))]
    /\ runParameters' =
           [XLSXPath |-> Head(tasks),
            CSVPath |-> getRealCSVPath(BatchPathFilenameMask, Head(tasks))]
    /\ runThreadParameters' = [v \in 0..(MaxThreads - 1) |-> runParameters']
    /\ started' = [started EXCEPT ![Head(tasks)] = @ + 1]
    /\ wpc' = [wpc EXCEPT ![w] = "conv"]
    /\ UNCHANGED <<dirContents, files, BatchThreads, tasksCap, tasksClosed,
                   reports, workerId, sent, received, dpc, convErr, outcomes,
                   batchResult, convVars, pathVars>>

\* main.go:137-145: a name is received; the destination is resolved, the
\* parameters copied, START printed, and xlsx2csv is entered
Recv(w) ==
    /\ wpc[w] = "recv"
    /\ tasks # <<>>
    /\ tasks' = Tail(tasks)
    /\ fileSrcName' = [fileSrcName EXCEPT ![w] = Head(tasks)]
    /\ fileDstName' = [fileDstName EXCEPT
                         ![w] = getRealCSVPath(BatchPathFilenameMask, Head(tasks))]
    /\ runThreadParameters' =
           [runThreadParameters EXCEPT
               ![w] = [XLSXPath |-> Head(tasks),
                       CSVPath |-> getRealCSVPath(BatchPathFilenameMask, Head(tasks))]]
    /\ started' = [started EXCEPT ![Head(tasks)] = @ + 1]
    /\ wpc' = [wpc EXCEPT ![w] = "conv"]
    /\ UNCHANGED <<dirContents, files, BatchThreads, tasksCap, tasksClosed,
                   reports, workerId, sent, received, dpc, convErr, outcomes,
                   batchResult,
                   runParameters,
                   convVars, pathVars>>

\* main.go:137-140 and 133-135: the channel is closed and empty, the worker
\* returns (and prints STOP)
RecvClosed(w) ==
    /\ wpc[w] = "recv"
    /\ tasks = <<>>
    /\ tasksClosed
    /\ wpc' = [wpc EXCEPT ![w] = "stopped"]
    /\ UNCHANGED <<dirContents, files, BatchThreads, tasks, tasksCap, tasksClosed,
                   reports, workerId, sent, received, dpc, fileSrcName,
                   fileDstName, convErr, started, outcomes, batchResult,
                   runParameters, runThreadParameters,
                   convVars, pathVars>>

\* main.go:146-150: xlsx2csv returns; an error is printed, END is printed
ConvReturn(w) ==
    /\ wpc[w] = "conv"
    /\ \E e \in ConvResults : convErr' = [convErr EXCEPT ![w] = e]
    /\ wpc' = [wpc EXCEPT ![w] = "report"]
    /\ UNCHANGED <<dirContents, files, BatchThreads, tasks, tasksCap, tasksClosed,
                   reports, workerId, sent, received, dpc, fileSrcName,
                   fileDstName, started, outcomes, batchResult,
                   runParameters, runThreadParameters,
                   convVars, pathVars>>

\* Report in which a failed conversion ends the worker
ReportUnlessFailed(w) ==
    /\ wpc[w] = "report"
    /\ IF convErr[w] = "nil"
       THEN /\ Len(reports) < Len(files)
            /\ reports' = Append(reports, 0)
            /\ outcomes' = Append(outcomes, [worker |-> w, src |-> fileSrcName[w],
                                             dst |-> fileDstName[w],
                                             err |-> convErr[w]])
            /\ wpc' = [wpc EXCEPT ![w] = "recv"]
       ELSE /\ wpc' = [wpc EXCEPT ![w] = "stopped"]
            /\ UNCHANGED <<reports, outcomes>>
    /\ UNCHANGED <<dirContents, files, BatchThreads, tasks, tasksCap, tasksClosed,
                   workerId, sent, received, dpc, fileSrcName, fileDstName,
                   convErr, started, batchResult, runParameters, runThreadParameters,
                   convVars, pathVars>>

\* main.go:151: reports <- 0, which waits for room; then the loop goes round
Report(w) ==
    /\ wpc[w] = "report"
    /\ Len(reports) < Len(files)
    /\ reports' = Append(reports, 0)
    /\ outcomes' = Append(outcomes, [worker |-> w, src |-> fileSrcName[w],
                                     dst |-> fileDstName[w], err |-> convErr[w]])
    /\ wpc' = [wpc EXCEPT ![w] = "recv"]
    /\ UNCHANGED <<dirContents, files, BatchThreads, tasks, tasksCap, tasksClosed,
                   workerId, sent, received, dpc, fileSrcName, fileDstName,
                   convErr, started, batchResult,
                   runParameters, runThreadParameters,
                   convVars, pathVars>>

Next ==
    \/ Spawn
    \/ Enqueue
    \/ Collect
    \/ CloseTasks
    \/ Return
    \/ \E w \in Workers : Recv(w)
    \/ \E w \in Workers : RecvClosed(w)
    \/ \E w \in Workers : ConvReturn(w)
    \/ \E w \in Workers : Report(w)

Spec == InitBatch /\ [][Next]_vars

\* the dispatching goroutine and the worker goroutines of main.go:131-163
Dispatcher == Spawn \/ Enqueue \/ Collect \/ CloseTasks \/ Return

\* main.go:137: the receive of Recv(w), told by what it does to the queue and
\* to the worker; among the steps of Next these are the steps of Recv(w), and
\* it can be taken exactly when Recv(w) can
TakesName(w) ==
    /\ wpc[w] = "recv"
    /\ tasks # <<>>
    /\ tasks' = Tail(tasks)
    /\ wpc' = [wpc EXCEPT ![w] = "conv"]

Worker(w) == TakesName(w) \/ RecvClosed(w) \/ ConvReturn(w) \/ Report(w)

\* the batches of directories of at most MaxFairEntries entries
InitFair == InitBatch /\ Len(dirContents) <= MaxFairEntries

\* the batch under Go's scheduler: a goroutine that can run does run, a
\* sleep ends, and every call of xlsx2csv returns (ConvReturn); each step of
\* a worker changes its wpc
SpecFair ==
    /\ InitFair
    /\ [][Next]_vars
    /\ WF_vars(Dispatcher)
    /\ \A w \in 0..(MaxThreads - 1) : WF_wpc(Worker(w))

\* TakesName(w) and Recv(w) are the same steps of the batch
TakesNameIsRecv ==
    [][\A w \in 0..(MaxThreads - 1) : TakesName(w) <=> Recv(w)]_vars

(* ------------------------ the conversion: xlsx2csv -------------------- *)

\* the destination a conversion may be given: none (standard output) or a file
CSVPaths == {<<>>, <<"o", "/", "a", ".", "c", "s", "v">>}

\* the delimiter flag: the default, and a character encoding/csv refuses
\* (the flag holds one character; with an empty one main.go:211 panics)
Delimiters == {";", "\""}

\* what the file at CSVPath is before the conversion
DstFiles == {[exists |-> FALSE, content |-> <<>>],
             [exists |-> TRUE, content |-> <<<<"old">>>>]}

InitConv ==
    /\ CSVPath \in CSVPaths
    /\ SheetIndex \in -1..DocSheets
    /\ AddBOMUTF8 \in BOOLEAN
    /\ Delimiter \in Delimiters
    /\ cpc = "open"
    /\ xlsx = "none"
    /\ outputFile = "stdout"
    /\ stdoutHandle = "open"
    /\ fileHandle = "none"
    /\ dirMade = FALSE
    /\ dstFile \in DstFiles
    /\ stdoutContent = <<>>
    /\ csvBuf = <<>>
    /\ csvErr = FALSE
    /\ nScanned = 0
    /\ lastScanError = "nil"
    /\ iteration = 0
    /\ defers = <<>>
    /\ returnError = "unset"
    /\ accepted = <<>>
    /\ finalFlush = FALSE
    /\ dirContents = <<>>
    /\ files = <<>>
    /\ BatchThreads = 1
    /\ tasks = <<>>
    /\ tasksCap = 0
    /\ tasksClosed = FALSE
    /\ reports = <<>>
    /\ workerId = 0
    /\ sent = 0
    /\ received = 0
    /\ dpc = "idle"
    /\ wpc = [w \in 0..(MaxThreads - 1) |-> "unborn"]
    /\ fileSrcName = [w \in 0..(MaxThreads - 1) |-> NoPath]
    /\ fileDstName = [w \in 0..(MaxThreads - 1) |-> NoPath]
    /\ convErr = [w \in 0..(MaxThreads - 1) |-> "nil"]
    /\ started = <<>>
    /\ outcomes = <<>>
    /\ batchResult = "idle"
    /\ runParameters = SharedPaths
    /\ runThreadParameters = [w \in 0..(MaxThreads - 1) |-> SharedPaths]
    /\ PathIdle

\* the three bytes EF BB BF (main.go:221), and the record of one row
BOM == <<"bom">>
RecordOf(row) == <<"row", row>>

\* what outputFile has received
Sink == IF outputFile = "file" THEN dstFile.content ELSE stdoutContent

\* outputFile.Write took items
SinkAppend(items) ==
    IF outputFile = "file"
    THEN /\ dstFile' = [dstFile EXCEPT !.content = @ \o items]
         /\ UNCHANGED stdoutContent
    ELSE /\ stdoutContent' = stdoutContent \o items
         /\ UNCHANGED dstFile

\* encoding/csv's validDelim, on the delimiters of the model
validDelim(r) == r # "\"" /\ r # "\r" /\ r # "\n"

\* "return err": the result is set and the deferred calls run
ReturnWith(e) ==
    /\ returnError' = e
    /\ cpc' = "defers"

\* ScanResult without the special case of the end of the stream
ScanResultRaw(e) == e

\* main.go:236-240: the end of stream is success, any other scan error is
\* returned as it is
ScanResult(e) == IF e = "EOF" THEN "nil" ELSE e

\* csvWriter.Flush(): the buffer goes to outputFile, unless an earlier write
\* failed; a failing write takes a part of the buffer and the error stays
\* in the writer, Flush itself returns nothing
Flush ==
    IF csvErr \/ csvBuf = <<>>
    THEN UNCHANGED <<csvBuf, csvErr, dstFile, stdoutContent>>
    ELSE \E ok \in BOOLEAN :
           IF ok
           THEN /\ SinkAppend(csvBuf)
                /\ csvBuf' = <<>>
                /\ UNCHANGED csvErr
           ELSE \E k \in 0..(Len(csvBuf) - 1) :
                  /\ SinkAppend(SubSeq(csvBuf, 1, k))
                  /\ csvBuf' = Suffix(csvBuf, k + 1)
                  /\ csvErr' = TRUE

\* Open with the destination prepared before the source is opened
OpenCreatesFirst ==
    /\ cpc = "open"
    /\ dirMade' = (CSVPath # <<>>)
    /\ dstFile' = IF CSVPath # <<>> THEN [exists |-> TRUE, content |-> <<>>]
                                    ELSE dstFile
    /\ \E ok \in BOOLEAN :
         IF ok
         THEN /\ xlsx' = "open"
              /\ defers' = Append(defers, "closeXlsx")
              /\ cpc' = "dest"
              /\ UNCHANGED returnError
         ELSE /\ ReturnWith("openerr")
              /\ UNCHANGED <<xlsx, defers>>
    /\ UNCHANGED <<CSVPath, SheetIndex, AddBOMUTF8, Delimiter, outputFile,
                   stdoutHandle, fileHandle, stdoutContent,
                   csvBuf, csvErr, nScanned, lastScanError, iteration, accepted,
                   finalFlush, batchVars,
                   pathVars>>

\* main.go:168-195: the document is opened and configured, its Close deferred
Open ==
    /\ cpc = "open"
    /\ \E ok \in BOOLEAN :
         IF ok
         THEN /\ xlsx' = "open"
              /\ defers' = Append(defers, "closeXlsx")
              /\ cpc' = "dest"
              /\ UNCHANGED returnError
         ELSE /\ ReturnWith("openerr")
              /\ UNCHANGED <<xlsx, defers>>
    /\ UNCHANGED <<CSVPath, SheetIndex, AddBOMUTF8, Delimiter, outputFile,
                   stdoutHandle, fileHandle, dirMade, dstFile, stdoutContent,
                   csvBuf, csvErr, nScanned, lastScanError, iteration, accepted,
                   finalFlush, batchVars,
                   pathVars>>

\* main.go:196-198 with no destination: outputFile stays os.Stdout
UseStdout ==
    /\ cpc = "dest"
    /\ CSVPath = <<>>
    /\ cpc' = "writer"
    /\ UNCHANGED <<CSVPath, SheetIndex, AddBOMUTF8, Delimiter, xlsx, outputFile,
                   stdoutHandle, fileHandle, dirMade, dstFile, stdoutContent,
                   csvBuf, csvErr, nScanned, lastScanError, iteration, defers,
                   returnError, accepted, finalFlush, batchVars,
                   pathVars>>

\* main.go:198-202: os.MkdirAll of the destination's directory
MkdirAll ==
    /\ cpc = "dest"
    /\ CSVPath # <<>>
    /\ \E ok \in BOOLEAN :
         IF ok
         THEN /\ dirMade' = TRUE
              /\ cpc' = "create"
              /\ UNCHANGED returnError
         ELSE /\ ReturnWith("mkdirerr")
              /\ UNCHANGED dirMade
    /\ UNCHANGED <<CSVPath, SheetIndex, AddBOMUTF8, Delimiter, xlsx, outputFile,
                   stdoutHandle, fileHandle, dstFile, stdoutContent, csvBuf,
                   csvErr, nScanned, lastScanError, iteration, defers, accepted,
                   finalFlush, batchVars,
                   pathVars>>

\* main.go:203-206: os.Create makes the file or truncates it
Create ==
    /\ cpc = "create"
    /\ \E ok \in BOOLEAN :
         IF ok
         THEN /\ outputFile' = "file"
              /\ fileHandle' = "open"
              /\ dstFile' = [exists |-> TRUE, content |-> <<>>]
              /\ cpc' = "writer"
              /\ UNCHANGED returnError
         ELSE /\ ReturnWith("createerr")
              /\ UNCHANGED <<outputFile, fileHandle, dstFile>>
    /\ UNCHANGED <<CSVPath, SheetIndex, AddBOMUTF8, Delimiter, xlsx, stdoutHandle,
                   dirMade, stdoutContent, csvBuf, csvErr, nScanned,
                   lastScanError, iteration, defers, accepted, finalFlush,
                   batchVars,
                   pathVars>>

\* NewWriter without the deferred Close of the output
NewWriterNoClose ==
    /\ cpc = "writer"
    /\ defers' = defers \o <<"flush">>
    /\ csvBuf' = <<>>
    /\ csvErr' = FALSE
    /\ cpc' = "sheet"
    /\ UNCHANGED <<CSVPath, SheetIndex, AddBOMUTF8, Delimiter, xlsx, outputFile,
                   stdoutHandle, fileHandle, dirMade, dstFile, stdoutContent,
                   nScanned, lastScanError, iteration, returnError, accepted,
                   finalFlush, batchVars,
                   pathVars>>

\* main.go:208-211: the output's Close is deferred, the writer made, its Flush
\* deferred, its delimiter set
NewWriter ==
    /\ cpc = "writer"
    /\ defers' = defers \o <<"closeOut", "flush">>
    /\ csvBuf' = <<>>
    /\ csvErr' = FALSE
    /\ cpc' = "sheet"
    /\ UNCHANGED <<CSVPath, SheetIndex, AddBOMUTF8, Delimiter, xlsx, outputFile,
                   stdoutHandle, fileHandle, dirMade, dstFile, stdoutContent,
                   nScanned, lastScanError, iteration, returnError, accepted,
                   finalFlush, batchVars,
                   pathVars>>

\* main.go:212-217: a sheet index of 0 or more is selected, and refused when
\* the document has no such sheet
SetSheet ==
    /\ cpc = "sheet"
    /\ IF SheetIndex >= 0 /\ ~(SheetIndex < DocSheets)
       THEN ReturnWith("sheeterr")
       ELSE cpc' = "scan" /\ UNCHANGED returnError
    /\ UNCHANGED <<CSVPath, SheetIndex, AddBOMUTF8, Delimiter, xlsx, outputFile,
                   stdoutHandle, fileHandle, dirMade, dstFile, stdoutContent,
                   csvBuf, csvErr, nScanned, lastScanError, iteration, defers,
                   accepted, finalFlush, batchVars,
                   pathVars>>

\* main.go:219: scanner.Scan() gives the next row, the end of the stream or
\* an error
Scan ==
    /\ cpc = "scan"
    /\ \E r \in {"row", "EOF", "scanerr"} :
         IF r = "row"
         THEN /\ nScanned < MaxRows
              /\ nScanned' = nScanned + 1
              /\ lastScanError' = "nil"
              /\ cpc' = "bom"
         ELSE /\ lastScanError' = r
              /\ cpc' = "after"
              /\ UNCHANGED nScanned
    /\ UNCHANGED <<CSVPath, SheetIndex, AddBOMUTF8, Delimiter, xlsx, outputFile,
                   stdoutHandle, fileHandle, dirMade, dstFile, stdoutContent,
                   csvBuf, csvErr, iteration, defers, returnError, accepted,
                   finalFlush, batchVars,
                   pathVars>>

\* main.go:220-225: in the first iteration the mark is written to outputFile
\* itself, not through the csv writer
WriteBOM ==
    /\ cpc = "bom"
    /\ IF AddBOMUTF8 /\ iteration = 0
       THEN \E ok \in BOOLEAN :
              IF ok
              THEN /\ SinkAppend(<<BOM>>)
                   /\ cpc' = "write"
                   /\ UNCHANGED returnError
              ELSE /\ ReturnWith("bomerr")
                   /\ UNCHANGED <<dstFile, stdoutContent>>
       ELSE /\ cpc' = "write"
            /\ UNCHANGED <<returnError, dstFile, stdoutContent>>
    /\ UNCHANGED <<CSVPath, SheetIndex, AddBOMUTF8, Delimiter, xlsx, outputFile,
                   stdoutHandle, fileHandle, dirMade, csvBuf, csvErr, nScanned,
                   lastScanError, iteration, defers, accepted, finalFlush,
                   batchVars,
                   pathVars>>

\* main.go:226-231: csvWriter.Write(data). It refuses a bad delimiter and
\* reports the writer's earlier error; the record goes to the buffer, and
\* when the buffer is full its content goes to outputFile first
WriteRecord ==
    /\ cpc = "write"
    /\ LET data == RecordOf(nScanned) IN
       IF ~validDelim(Delimiter) \/ csvErr
       THEN /\ ReturnWith("writeerr")
            /\ UNCHANGED <<csvBuf, csvErr, dstFile, stdoutContent, iteration,
                           accepted>>
       ELSE \/ /\ csvBuf' = Append(csvBuf, data)
               /\ accepted' = Append(accepted, data)
               /\ iteration' = iteration + 1
               /\ cpc' = "flushcheck"
               /\ UNCHANGED <<csvErr, dstFile, stdoutContent, returnError>>
            \/ /\ csvBuf # <<>>
               /\ \E ok \in BOOLEAN :
                    IF ok
                    THEN /\ SinkAppend(csvBuf)
                         /\ csvBuf' = <<data>>
                         /\ accepted' = Append(accepted, data)
                         /\ iteration' = iteration + 1
                         /\ cpc' = "flushcheck"
                         /\ UNCHANGED <<csvErr, returnError>>
                    ELSE /\ \E k \in 0..(Len(csvBuf) - 1) :
                              /\ SinkAppend(SubSeq(csvBuf, 1, k))
                              /\ csvBuf' = Suffix(csvBuf, k + 1)
                         /\ csvErr' = TRUE
                         /\ ReturnWith("writeerr")
                         /\ UNCHANGED <<iteration, accepted>>
    /\ UNCHANGED <<CSVPath, SheetIndex, AddBOMUTF8, Delimiter, xlsx, outputFile,
                   stdoutHandle, fileHandle, dirMade, nScanned, lastScanError,
                   defers, finalFlush, batchVars,
                   pathVars>>

\* main.go:232-234: every FlushEvery rows the writer is flushed
PeriodicFlush ==
    /\ cpc = "flushcheck"
    /\ IF iteration % FlushEvery = 0
       THEN Flush
       ELSE UNCHANGED <<csvBuf, csvErr, dstFile, stdoutContent>>
    /\ cpc' = "scan"
    /\ UNCHANGED <<CSVPath, SheetIndex, AddBOMUTF8, Delimiter, xlsx, outputFile,
                   stdoutHandle, fileHandle, dirMade, nScanned, lastScanError,
                   iteration, defers, returnError, accepted, finalFlush,
                   batchVars,
                   pathVars>>

\* main.go:236-240: the loop has ended on a scan result
Finish ==
    /\ cpc = "after"
    /\ ReturnWith(ScanResult(lastScanError))
    /\ UNCHANGED <<CSVPath, SheetIndex, AddBOMUTF8, Delimiter, xlsx, outputFile,
                   stdoutHandle, fileHandle, dirMade, dstFile, stdoutContent,
                   csvBuf, csvErr, nScanned, lastScanError, iteration, defers,
                   accepted, finalFlush, batchVars,
                   pathVars>>

\* the deferred calls (main.go:195, 208, 210, 243-245) run last one first
RunDefer ==
    /\ cpc = "defers"
    /\ defers # <<>>
    /\ defers' = SubSeq(defers, 1, Len(defers) - 1)
    /\ LET d == defers[Len(defers)] IN
       \/ /\ d = "flush"
          /\ Flush
          /\ finalFlush' = TRUE
          /\ UNCHANGED <<xlsx, stdoutHandle, fileHandle>>
       \/ /\ d = "closeOut"
          /\ IF outputFile = "file"
             THEN fileHandle' = "closed" /\ UNCHANGED stdoutHandle
             ELSE stdoutHandle' = "closed" /\ UNCHANGED fileHandle
          /\ UNCHANGED <<xlsx, csvBuf, csvErr, dstFile, stdoutContent, finalFlush>>
       \/ /\ d = "closeXlsx"
          /\ xlsx' = "closed"
          /\ UNCHANGED <<stdoutHandle, fileHandle, csvBuf, csvErr, dstFile,
                         stdoutContent, finalFlush>>
    /\ UNCHANGED <<CSVPath, SheetIndex, AddBOMUTF8, Delimiter, cpc, outputFile,
                   dirMade, nScanned, lastScanError, iteration, returnError,
                   accepted, batchVars,
                   pathVars>>

\* xlsx2csv returns to its caller
ReturnConv ==
    /\ cpc = "defers"
    /\ defers = <<>>
    /\ cpc' = "returned"
    /\ UNCHANGED <<CSVPath, SheetIndex, AddBOMUTF8, Delimiter, xlsx, outputFile,
                   stdoutHandle, fileHandle, dirMade, dstFile, stdoutContent,
                   csvBuf, csvErr, nScanned, lastScanError, iteration, defers,
                   returnError, accepted, finalFlush, batchVars,
                   pathVars>>

NextConv ==
    \/ Open
    \/ UseStdout
    \/ MkdirAll
    \/ Create
    \/ NewWriter
    \/ SetSheet
    \/ Scan
    \/ WriteBOM
    \/ WriteRecord
    \/ PeriodicFlush
    \/ Finish
    \/ RunDefer
    \/ ReturnConv

SpecConv == InitConv /\ [][NextConv]_vars

(* --------------------- the path resolver on its own -------------------- *)

\* all strings over chars of at most n characters
StringsUpTo(chars, n) == UNION {[1..k -> chars] : k \in 0..n}

MaskChars == {"*", "/", "o", "."}
SourceChars == {"a", "/", ".", "*"}

ExampleMask == <<"*", "/", "o", "u", "t", "/", "*", ".", "c", "s", "v">>
FixedMask == <<"f", "i", "x", "e", "d", ".", "c", "s", "v">>
ExampleSource == <<"/", "a", "/", "b", "/", "f", "i", "l", "e", ".", "x", "l", "s", "x">>

\* the masks and the source paths tried: file names may hold any character
\* but the separator, "*" too
Masks == StringsUpTo(MaskChars, MaxMaskLen) \cup {ExampleMask, FixedMask}
Sources == StringsUpTo(SourceChars, MaxSourceLen) \cup {ExampleSource}

InitPath ==
    /\ resolveMask \in Masks
    /\ resolveSource \in Sources
    /\ resolveResult = <<>>
    /\ rpc = "call"
    /\ dirContents = <<>>
    /\ files = <<>>
    /\ BatchThreads = 1
    /\ tasks = <<>>
    /\ tasksCap = 0
    /\ tasksClosed = FALSE
    /\ reports = <<>>
    /\ workerId = 0
    /\ sent = 0
    /\ received = 0
    /\ dpc = "idle"
    /\ wpc = [w \in 0..(MaxThreads - 1) |-> "unborn"]
    /\ fileSrcName = [w \in 0..(MaxThreads - 1) |-> NoPath]
    /\ fileDstName = [w \in 0..(MaxThreads - 1) |-> NoPath]
    /\ convErr = [w \in 0..(MaxThreads - 1) |-> "nil"]
    /\ started = <<>>
    /\ outcomes = <<>>
    /\ batchResult = "idle"
    /\ runParameters = SharedPaths
    /\ runThreadParameters = [w \in 0..(MaxThreads - 1) |-> SharedPaths]
    /\ ConvIdle

\* main.go:80-91: one call of getRealCSVPath
Resolve ==
    /\ rpc = "call"
    /\ resolveResult' = getRealCSVPath(resolveMask, resolveSource)
    /\ rpc' = "done"
    /\ UNCHANGED <<resolveMask, resolveSource, batchVars, convVars>>

NextPath == Resolve

SpecPath == InitPath /\ [][NextPath]_vars

(* ------------------------------ the batch ----------------------------- *)

\* how often name f is in the queue q
RECURSIVE CountIn(_, _)
CountIn(q, f) ==
    IF q = <<>> THEN 0
    ELSE (IF Head(q) = f THEN 1 ELSE 0) + CountIn(Tail(q), f)

\* the workers that are inside xlsx2csv for f, or between it and the report
Holding(f) == {w \in Workers : wpc[w] \in {"conv", "report"} /\ fileSrcName[w] = f}

\* the reports made for f
ReportsOf(f) == {k \in 1..Len(outcomes) : outcomes[k].src = f}

\* C1: when batchXlsx2csv returns, for a worker count of 1, 2 or more than
\* the file count, the K discovered files have given exactly K reported
\* outcomes, all K were collected, no two outcomes are of the same source
\* and every source has one.
BatchOutcomesComplete ==
    dpc = "returned" =>
        /\ received = Len(files)
        /\ Len(outcomes) = Len(files)
        /\ \A i, j \in 1..Len(outcomes) :
               i # j => outcomes[i].src # outcomes[j].src
        /\ {outcomes[i].src : i \in 1..Len(outcomes)} = FileNames

\* a batch of two files and more workers than files has returned
BatchOutcomesWitness ==
    /\ dpc = "returned"
    /\ Len(files) = 2
    /\ BatchThreads > Len(files)
    /\ Len(outcomes) = 2

\* C2: under every interleaving, a name that was put on the tasks queue is
\* either still there once or was received by one worker, for which
\* xlsx2csv was called once; a name not yet sent is nowhere; a received name
\* is with exactly one worker or reported once; at the end every name has
\* been converted once.
ExactlyOnce ==
    /\ \A i \in 1..Len(files) :
         LET f == files[i].name IN
         /\ started[f] + CountIn(tasks, f) = IF i <= sent THEN 1 ELSE 0
         /\ started[f] = Cardinality(Holding(f)) + Cardinality(ReportsOf(f))
    /\ dpc = "returned" => \A f \in FileNames : started[f] = 1

\* three files were converted by at least two different workers
ExactlyOnceWitness ==
    /\ dpc = "returned"
    /\ Len(files) = 3
    /\ \E i, j \in 1..Len(outcomes) : outcomes[i].worker # outcomes[j].worker

\* C3: a failed conversion is reported like any other, its worker stops only
\* once the queue is closed and so goes on receiving, no name that was
\* attempted is on the queue again, and batchXlsx2csv returns nil after every
\* discovered file was attempted and reported, failures included.
FailureIsolated ==
    /\ \A w \in Workers : wpc[w] = "stopped" => tasksClosed
    /\ \A k \in 1..Len(tasks) : started[tasks[k]] = 0
    /\ \A w \in Workers :
         wpc[w] \in {"conv", "report"} =>
             /\ started[fileSrcName[w]] >= 1
             /\ ReportsOf(fileSrcName[w]) = {}
    /\ dpc = "returned" =>
         /\ batchResult = "nil"
         /\ \A f \in FileNames : started[f] >= 1 /\ ReportsOf(f) # {}

\* a worker reported a failure and later another job, and some job succeeded
FailureIsolatedWitness ==
    /\ dpc = "returned"
    /\ \E i, j \in 1..Len(outcomes) :
         /\ i < j
         /\ outcomes[i].err = "error"
         /\ outcomes[j].worker = outcomes[i].worker
    /\ \E k \in 1..Len(outcomes) : outcomes[k].err = "nil"

\* C4: when batchXlsx2csv has returned, every worker it started has
\* terminated.
NoWorkerLeftRunning ==
    dpc = "returned" => \A w \in Workers : wpc[w] = "stopped"

\* C5 as stated: the queue is closed after all jobs were submitted and before
\* the dispatcher takes any outcome; workers stop on the closed, drained queue.
CloseThenCollect ==
    /\ tasksClosed => sent = Len(files)
    /\ received > 0 => tasksClosed
    /\ \A w \in Workers : wpc[w] = "stopped" => tasksClosed /\ tasks = <<>>

\* C5 amended: the queue is closed only after all jobs were submitted and one
\* outcome per job was received; the dispatcher returns after closing it;
\* workers stop on the closed, drained queue.
CollectThenClose ==
    /\ tasksClosed => sent = Len(files) /\ received = Len(files)
    /\ dpc = "returned" => tasksClosed
    /\ \A w \in Workers : wpc[w] = "stopped" => tasksClosed /\ tasks = <<>>

\* the queue of a batch of two files is closed and a worker has stopped on it
CollectThenCloseWitness ==
    /\ tasksClosed
    /\ Len(files) = 2
    /\ received = 2
    /\ \E w \in Workers : wpc[w] = "stopped"

(* ---------------------------- the conversion -------------------------- *)

\* the records in what outputFile received, the mark left out
Records(s) == SelectSeq(s, LAMBDA x : x # BOM)

\* the rows the scanner has returned, as records
ScannedRecords == [i \in 1..nScanned |-> RecordOf(i)]

OutputClosed == fileHandle = "closed" \/ stdoutHandle = "closed"

\* C6: after a successful conversion with the BOM flag set, the output begins
\* with the mark and holds it once, whatever the row count, zero included.
BOMFirstOnce ==
    (cpc = "returned" /\ returnError = "nil" /\ AddBOMUTF8) =>
        /\ Len(Sink) >= 1
        /\ Sink[1] = BOM
        /\ Cardinality({i \in 1..Len(Sink) : Sink[i] = BOM}) = 1

\* C7: after a successful conversion the records at the destination are the
\* rows the scanner returned, one record per row, in the order of the scan.
RecordsEqualRows ==
    (cpc = "returned" /\ returnError = "nil") => Records(Sink) = ScannedRecords

\* C8: after xlsx2csv has returned, every record the csv writer took is at
\* the destination and none is left in the buffer; and the output is closed
\* only after the deferred Flush has run.
FlushedBeforeClose ==
    /\ cpc = "returned" => Records(Sink) = accepted /\ csvBuf = <<>>
    /\ OutputClosed => finalFlush

\* C9: when xlsx2csv has returned, on whichever path, the document handle and
\* the destination file handle are closed if they were acquired.
HandlesClosed ==
    cpc = "returned" =>
        /\ xlsx \in {"none", "closed"}
        /\ fileHandle \in {"none", "closed"}
        /\ xlsx = "none" => returnError = "openerr"
        /\ fileHandle = "none" =>
              \/ CSVPath = <<>>
              \/ returnError \in {"openerr", "mkdirerr", "createerr"}

\* a record could not be written to the destination file, and both handles
\* were closed
HandlesClosedWitness ==
    /\ cpc = "returned"
    /\ returnError = "writeerr"
    /\ xlsx = "closed"
    /\ fileHandle = "closed"

\* C10: xlsx2csv returns nil when, and only when, the loop ended on the end
\* of the stream, and returns the scan error itself when, and only when, the
\* loop ended on another scan error.
ScanOutcome ==
    cpc = "returned" =>
        /\ lastScanError = "EOF" <=> returnError = "nil"
        /\ lastScanError = "scanerr" <=> returnError = "scanerr"

\* the scan failed after two rows and xlsx2csv returned that error
ScanOutcomeWitness ==
    /\ cpc = "returned"
    /\ nScanned = 2
    /\ lastScanError = "scanerr"
    /\ returnError = "scanerr"


\* the file at CSVPath is as it was before the call: os.Create, the one
\* statement that makes or empties it, has not succeeded
DestinationUntouched == fileHandle = "none" /\ dstFile \in DstFiles

\* C11: when xlsx2csv has failed on a sheet index that the document does not
\* have, no output file was created and none was emptied or partly written.
SheetErrorLeavesNoFile ==
    (cpc = "returned" /\ returnError = "sheeterr") => DestinationUntouched


\* C19: when xlsx2csv has returned the error of opening the source, no parent
\* directory was made and the destination file was neither created nor
\* emptied: a destination that existed keeps its content.
OpenErrorLeavesDestination ==
    (cpc = "returned" /\ returnError = "openerr")
        => (~dirMade /\ DestinationUntouched)

OpenErrorLeavesDestinationWitness ==
    /\ cpc = "returned"
    /\ returnError = "openerr"
    /\ CSVPath # <<>>
    /\ dstFile.exists
    /\ dstFile.content # <<>>


\* the place of a discovered file in the order the directory listing gave
EncounterIndex(f) ==
    LET found == Discover(dirContents)
    IN  CHOOSE i \in 1..Len(found) : found[i] = f

\* C13: the job list is in descending order of size, and two files of the
\* same size stand in the order in which the directory listing returned them.
JobListStableDescending ==
    dpc # "idle" =>
        \A i, j \in 1..Len(files) :
            i < j => /\ files[i].size >= files[j].size
                     /\ files[i].size = files[j].size
                            => EncounterIndex(files[i]) < EncounterIndex(files[j])


\* C18: with the basename wildcard in the batch mask, two jobs for different
\* source files never have the same destination path, neither two that are
\* being converted at the same time nor two that ran one after the other.
DestinationsDistinct ==
    /\ \A v, w \in Workers :
           (/\ v # w
            /\ wpc[v] = "conv"
            /\ wpc[w] = "conv"
            /\ fileSrcName[v] # fileSrcName[w])
               => fileDstName[v] # fileDstName[w]
    /\ \A i, j \in 1..Len(outcomes) :
           outcomes[i].src # outcomes[j].src
               => outcomes[i].dst # outcomes[j].dst


\* the dispatcher stands in the loop of main.go:155-157 with a name to send
AtEnqueue == dpc = "running" /\ workerId = BatchThreads /\ sent < Len(files)

\* C15: the task queue has as many slots as there are jobs, and whenever the
\* dispatcher is about to send a job the queue has room, whatever the workers
\* have taken so far.
EnqueueNeverBlocks ==
    dpc # "idle" =>
        /\ tasksCap = Len(files)
        /\ AtEnqueue => Len(tasks) < tasksCap

\* all jobs are in the queue and no worker has taken any
EnqueueNeverBlocksWitness ==
    /\ dpc = "running"
    /\ Len(files) >= 3
    /\ sent = Len(files)
    /\ Len(tasks) = Len(files)


\* the calls of xlsx2csv made so far for the first n files of the job list
RECURSIVE StartedUpTo(_)
StartedUpTo(n) ==
    IF n = 0 THEN 0 ELSE started[files[n].name] + StartedUpTo(n - 1)

\* the calls of xlsx2csv that have returned: reported, or about to be
ConversionsReturned ==
    Len(outcomes) + Cardinality({w \in Workers : wpc[w] = "report"})

\* the calls of xlsx2csv made and not yet returned
ConversionsInProgress == StartedUpTo(Len(files)) - ConversionsReturned

\* C20: at every moment of a batch the conversions in progress are at most as
\* many as the workers, and there is exactly one for each worker that is
\* inside xlsx2csv: no worker runs two at a time.
ConversionsBounded ==
    dpc # "idle" =>
        /\ ConversionsInProgress <= BatchThreads
        /\ ConversionsInProgress = Cardinality({w \in Workers : wpc[w] = "conv"})

\* both workers convert, one of them its second job
ConversionsBoundedWitness ==
    /\ BatchThreads = 2
    /\ ConversionsInProgress = 2
    /\ outcomes # <<>>


\* C14: every worker that is inside xlsx2csv has, in its own copy of the
\* parameters, the source and the destination of the job it received; the
\* struct the batch was given is never written, and the copy of a worker that
\* is converting is written by no other worker.
OwnJobParameters ==
    dpc # "idle" =>
        /\ runParameters = SharedPaths
        /\ \A w \in Workers :
               wpc[w] \in {"conv", "report"} =>
                   /\ runThreadParameters[w].XLSXPath = fileSrcName[w]
                   /\ runThreadParameters[w].CSVPath = fileDstName[w]
                   /\ runThreadParameters[w].XLSXPath \in FileNames
                   /\ Holding(fileSrcName[w]) = {w}

\* step form of the same: a step leaves the copy of every worker that is
\* inside xlsx2csv before and after it as it was
OwnJobParametersKept ==
    [][\A w \in 0..(MaxThreads - 1) :
           (wpc[w] = "conv" /\ wpc'[w] = "conv")
               => runThreadParameters'[w] = runThreadParameters[w]]_vars

\* two workers convert at once, each with its own paths
OwnJobParametersWitness ==
    \E v, w \in Workers :
        /\ v # w
        /\ wpc[v] = "conv"
        /\ wpc[w] = "conv"
        /\ runThreadParameters[v].XLSXPath # runThreadParameters[w].XLSXPath
        /\ outcomes # <<>>


\* C16: with the worker count main hands over (at least 1: a request below 1
\* was replaced by NumCPU + 1) and every conversion returning, the batch
\* eventually has all its reports and batchXlsx2csv has returned, for every
\* job list, the empty one too.
BatchTerminates ==
    /\ [](dpc # "idle" => BatchThreads >= 1)
    /\ <>(dpc = "returned" /\ received = Len(files) /\ sent = Len(files))

\* a batch of more files than workers has returned with all reports
BatchTerminatesWitness ==
    /\ dpc = "returned"
    /\ Len(files) > BatchThreads
    /\ received = Len(files)
    /\ Len(outcomes) = Len(files)


\* the mask holds neither wildcard token: both begin with "*"
NoWildcard(m) == \A i \in 1..Len(m) : m[i] # "*"

\* C12: getRealCSVPath("*/out/*.csv", "/a/b/file.xlsx") is
\* "/a/b/out/file.csv", and a mask without a wildcard token comes back as it
\* is for every source path; the result is a function of mask and source.
ResolveExampleAndPassthrough ==
    rpc = "done" =>
        /\ (resolveMask = ExampleMask /\ resolveSource = ExampleSource)
               => resolveResult = <<"/", "a", "/", "b", "/", "o", "u", "t", "/",
                                    "f", "i", "l", "e", ".", "c", "s", "v">>
        /\ NoWildcard(resolveMask) => resolveResult = resolveMask

ResolveExampleWitness ==
    /\ rpc = "done"
    /\ resolveMask = ExampleMask
    /\ resolveSource = ExampleSource
    /\ resolveResult # resolveMask

\* the result the substitution rule gives when text put in by the directory
\* substitution is left alone: the basename goes to the first "*" of the mask
\* that is not the one of the directory token
SubstituteInMaskOnly(destinationMask, source) ==
    LET src == ToSlash(source)
        mask == ToSlash(destinationMask)
        dirname == Dir(src) \o <<"/">>
        basename0 == Base(src)
        basename == SubSeq(basename0, 1, Len(basename0) - Len(Ext(basename0)))
        i == IndexOf(mask, <<"*", "/">>)
        left == SubSeq(mask, 1, i - 1)
        right == Suffix(mask, i + 2)
    IN  FromSlash(
            IF i = 0 THEN ReplaceFirst(mask, <<"*">>, basename)
            ELSE IF IndexOf(left, <<"*">>) # 0
                 THEN ReplaceFirst(left, <<"*">>, basename) \o dirname \o right
                 ELSE left \o dirname \o ReplaceFirst(right, <<"*">>, basename))

\* C17: for every mask and source, getRealCSVPath returns the mask with its
\* first "*/" replaced by the source's directory and its first "*" replaced
\* by the source's basename without extension, an absent token left literal,
\* and the directory text that was put in never substituted itself.
ResolveSubstitutesMaskOnly ==
    rpc = "done" =>
        resolveResult = SubstituteInMaskOnly(resolveMask, resolveSource)

\* the same for sources whose directory holds no "*"
ResolveSubstitutesMaskOnlyPlainDir ==
    (rpc = "done" /\ NoWildcard(Dir(ToSlash(resolveSource))))
        => resolveResult = SubstituteInMaskOnly(resolveMask, resolveSource)

====
